---- MODULE Spec2Model ----
(***************************************************************************)
(* Model of the Amazon bulk-sheet ID extractor.  The repository holds the   *)
(* same pipeline three times: extract_ids.py (command line), proccess.py    *)
(* (imported by the FastAPI service of main.py) and streamlit_app.py (the   *)
(* interactive front end).  The variable `variant` says which of the three  *)
(* is running; every operator that differs between them takes it as `v`.    *)
(*                                                                         *)
(* Text is a sequence of one-character strings, so that strip, lower,       *)
(* startswith, substring search and the ASIN pattern are computed.          *)
(***************************************************************************)
EXTENDS Integers, Sequences, FiniteSets, TLC

\* ------------------------------------------------------------------ bounds
\* Rows of the input sheet.
MaxRows == 2
\* Characters of a column-letter string handed to the resolver.
MaxLetters == 2
\* Largest index looked for among the resolver's results (ZZ is 701).
MaxIndex == 701

\* ------------------------------------------------------------- characters
UpperLetters ==
    << "A","B","C","D","E","F","G","H","I","J","K","L","M",
       "N","O","P","Q","R","S","T","U","V","W","X","Y","Z" >>
LowerLetters ==
    << "a","b","c","d","e","f","g","h","i","j","k","l","m",
       "n","o","p","q","r","s","t","u","v","w","x","y","z" >>
Digits == << "0","1","2","3","4","5","6","7","8","9" >>

Range(f) == { f[i] : i \in DOMAIN f }
UpperSet == Range(UpperLetters)
LowerSet == Range(LowerLetters)
DigitSet == Range(Digits)

PosIn(seq, ch) == CHOOSE i \in DOMAIN seq : seq[i] = ch

\* ord(ch) of the characters the model uses.
Ord(ch) ==
    IF ch \in UpperSet THEN 64 + PosIn(UpperLetters, ch)
    ELSE IF ch \in LowerSet THEN 96 + PosIn(LowerLetters, ch)
    ELSE IF ch \in DigitSet THEN 47 + PosIn(Digits, ch)
    ELSE IF ch = " " THEN 32
    ELSE IF ch = "\"" THEN 34
    ELSE IF ch = "-" THEN 45
    ELSE IF ch = "=" THEN 61
    ELSE IF ch = "_" THEN 95
    ELSE 63

UpperCh(ch) == IF ch \in LowerSet THEN UpperLetters[PosIn(LowerLetters, ch)] ELSE ch
LowerCh(ch) == IF ch \in UpperSet THEN LowerLetters[PosIn(UpperLetters, ch)] ELSE ch

\* str.upper(), str.lower()
str_upper(s) == [ i \in 1..Len(s) |-> UpperCh(s[i]) ]
str_lower(s) == [ i \in 1..Len(s) |-> LowerCh(s[i]) ]

IsSpace(ch) == ch = " "

\* str.strip(): drops the white space at both ends, keeps it inside.
str_strip(s) ==
    LET keep == { i \in 1..Len(s) : ~IsSpace(s[i]) }
    IN  IF keep = {} THEN << >>
        ELSE LET lo == CHOOSE i \in keep : \A j \in keep : i <= j
                 hi == CHOOSE i \in keep : \A j \in keep : j <= i
             IN  SubSeq(s, lo, hi)

\* str.startswith(p)
startswith(s, p) == Len(p) <= Len(s) /\ SubSeq(s, 1, Len(p)) = p

\* `p in s` / Series.str.contains(p) for a literal p
contains(s, p) ==
    \E i \in 1..(Len(s) - Len(p) + 1) : SubSeq(s, i, i + Len(p) - 1) = p

\* ------------------------------------------------- column-letter resolver
Variants == { "extract_ids", "proccess", "streamlit_app" }

Returned(x) == [ kind |-> "ok", val |-> x ]
Raised(type, origin, info) ==
    [ kind |-> "raise", type |-> type, origin |-> origin, info |-> info ]

RECURSIVE col_loop(_, _, _, _)
col_loop(v, s, i, n) ==
    IF i > Len(s) THEN Returned(n - 1)
    ELSE IF v = "extract_ids" /\ ~(Ord("A") <= Ord(s[i]) /\ Ord(s[i]) <= Ord("Z"))
         THEN Raised("ValueError", "excel_col_to_idx", s)
    ELSE col_loop(v, s, i + 1, n * 26 + (Ord(s[i]) - 64))

\* The resolver without the final "- 1": one-based positions, so D reads E.
RECURSIVE one_based_loop(_, _, _, _)
one_based_loop(v, s, i, n) ==
    IF i > Len(s) THEN Returned(n)
    ELSE IF v = "extract_ids" /\ ~(Ord("A") <= Ord(s[i]) /\ Ord(s[i]) <= Ord("Z"))
         THEN Raised("ValueError", "excel_col_to_idx", s)
    ELSE one_based_loop(v, s, i + 1, n * 26 + (Ord(s[i]) - 64))
excel_col_to_idx_one_based(v, col_letter) ==
    one_based_loop(v, str_upper(str_strip(col_letter)), 1, 0)

\* The resolver with plain base-26 digits (A = 0): "AA" collides with "A".
RECURSIVE plain_loop(_, _, _, _)
plain_loop(v, s, i, n) ==
    IF i > Len(s) THEN Returned(n)
    ELSE IF v = "extract_ids" /\ ~(Ord("A") <= Ord(s[i]) /\ Ord(s[i]) <= Ord("Z"))
         THEN Raised("ValueError", "excel_col_to_idx", s)
    ELSE plain_loop(v, s, i + 1, n * 26 + (Ord(s[i]) - 65))
excel_col_to_idx_plain(v, col_letter) ==
    plain_loop(v, str_upper(str_strip(col_letter)), 1, 0)

\* excel_col_to_idx: extract_ids.py checks every character, proccess.py and
\* streamlit_app.py do the arithmetic on whatever character they are given.
excel_col_to_idx(v, col_letter) ==
    col_loop(v, str_upper(str_strip(col_letter)), 1, 0)

\* ------------------------------------------------------------ the sheet
\* A cell read with dtype=str is text, or NaN where the sheet has no value.
NaN == << "NaN" >>

\* Series.astype(str): a missing value becomes the text "nan".
astype_str(x) == IF x = NaN THEN << "n","a","n" >> ELSE x

\* norm_text / norm: s.astype(str).str.strip()
norm_text(x) == str_strip(astype_str(x))

\* Label of a column the input gives no particular header.
ColLabel(c) == << "C", Digits[(c \div 10) + 1], Digits[(c % 10) + 1] >>

\* Header label of column c (0-based) of a sheet.
Header(sh, c) == IF c + 1 <= Len(sh.head) THEN sh.head[c + 1] ELSE ColLabel(c)

\* Text of row r (1-based), column c (0-based) of a sheet.
Cell(sh, r, c) ==
    IF c = sh.entAt THEN sh.rows[r].entity
    ELSE IF c = sh.ajAt THEN sh.rows[r].aj
    ELSE << "r", Digits[r + 1] >> \o ColLabel(c)

\* A DataFrame over the sheet: the columns and the rows it retains, in order.
Frame(cols, idx) == [ columns |-> cols, index |-> idx ]

\* pd.read_excel(..., dtype=str): every column and every row of the sheet.
read_excel(sh) ==
    Frame([ i \in 1..sh.ncols |-> i - 1 ], [ i \in 1..Len(sh.rows) |-> i ])

\* df.shape[1]
shape1(f) == Len(f.columns)

\* A boolean Series is bool-typed; Series.apply on an empty Series keeps the
\* dtype of the (text) Series it was applied to.
Mask(dtype, vals) == [ dtype |-> dtype, vals |-> vals ]

SelectIdx(idx, vals) ==
    LET F[k \in 0..Len(idx)] ==
            IF k = 0 THEN << >>
            ELSE IF vals[k] THEN Append(F[k - 1], idx[k]) ELSE F[k - 1]
    IN  F[Len(idx)]

\* df.loc[mask] with a boolean mask: the rows where it is true.
loc_rows(f, m) == Frame(f.columns, SelectIdx(f.index, m.vals))

\* df[key] with a Series key: a boolean key selects rows; a key that is not
\* boolean (the empty text Series) is a list of column labels, here none.
getitem(f, m) ==
    IF m.dtype = "bool" THEN loc_rows(f, m) ELSE Frame(<< >>, f.index)

\* df[col]: the values of one column over the frame's rows.
column_values(sh, f, c) == [ k \in 1..Len(f.index) |-> Cell(sh, f.index[k], c) ]

\* ------------------------------------------------------- text constants
T_entity == << "e","n","t","i","t","y" >>
T_keyword == << "k","e","y","w","o","r","d" >>
T_product_targeting == << "p","r","o","d","u","c","t"," ","t","a","r","g","e","t","i","n","g" >>
T_product_ad == << "p","r","o","d","u","c","t"," ","a","d" >>
T_product_ads == << "p","r","o","d","u","c","t"," ","a","d","s" >>
T_category == << "c","a","t","e","g","o","r","y" >>
auto_tokens == << << "c","l","o","s","e" >>, << "l","o","o","s","e" >>, << "s","u","b","s","t","i","t","u","t","e" >>, << "c","o","m","p","l","e","m","e","n","t" >> >>

L_D == << "D" >>
L_E == << "E" >>
L_G == << "G" >>
L_H == << "H" >>
L_I == << "I" >>
L_L == << "L" >>
L_M == << "M" >>
L_R == << "R" >>
L_S == << "S" >>
L_T == << "T" >>
L_W == << "W" >>
L_AC == << "A","C" >>
L_AJ == << "A","J" >>

cols_keyword == << L_D, L_E, L_H, L_L, L_M, L_R, L_S, L_T, L_AC >>
cols_prod_targeting == << L_D, L_E, L_I, L_L, L_M, L_R, L_S, L_T, L_AJ >>
cols_product_ad == << L_D, L_E, L_G, L_L, L_M, L_R, L_S, L_T, L_W >>

\* ---------------------------------------------------------- entity match
\* The matcher with "product ad" widened to the prefix "product".
match_entity_one_loose(x, needle) ==
    LET s == str_lower(norm_text(x))
    IN  IF needle = T_keyword THEN startswith(s, T_keyword)
        ELSE IF needle = T_product_targeting THEN startswith(s, T_product_targeting)
        ELSE IF needle = T_product_ad THEN startswith(s, SubSeq(T_product_ad, 1, 7))
        ELSE s = needle

\* match_entity, one row: s is the cell of the entity column.
match_entity_one(x, needle) ==
    LET s == str_lower(norm_text(x))
    IN  IF needle = T_keyword
            THEN s = T_keyword \/ startswith(s, T_keyword)
        ELSE IF needle = T_product_targeting
            THEN s = T_product_targeting \/ startswith(s, T_product_targeting)
        ELSE IF needle = T_product_ad
            THEN \/ s = T_product_ad
                 \/ s = T_product_ads
                 \/ startswith(s, T_product_ad)
                 \/ startswith(s, T_product_ads)
        ELSE s = needle

\* match_entity over a Series: comparisons of a text Series are boolean.
match_entity(series, needle) ==
    Mask("bool", [ k \in 1..Len(series) |-> match_entity_one(series[k], needle) ])

\* ------------------------------------------- targeting expression classes
IsWordCh(ch) == ch \in UpperSet \/ ch \in LowerSet \/ ch \in DigitSet \/ ch = "_"
IsAlnumCh(ch) == ch \in UpperSet \/ ch \in LowerSet \/ ch \in DigitSet

\* \b at the gap before position p (1..Len(s)+1): exactly one side is a word
\* character; outside the text counts as no word character.
WordAt(s, p) == p >= 1 /\ p <= Len(s) /\ IsWordCh(s[p])
re_boundary(s, p) == WordAt(s, p - 1) # WordAt(s, p)

\* \bB0[A-Z0-9]{8}\b with re.I, tried at position p.
pat_re_match(s, p) ==
    /\ p + 9 <= Len(s)
    /\ re_boundary(s, p)
    /\ UpperCh(s[p]) = "B"
    /\ s[p + 1] = "0"
    /\ \A k \in 2..9 : IsAlnumCh(s[p + k])
    /\ re_boundary(s, p + 10)

\* re.search: the pattern is tried at every position, left to right.
RECURSIVE pat_re_search(_, _)
pat_re_search(s, p) ==
    IF p > Len(s) THEN FALSE
    ELSE IF pat_re_match(s, p) THEN TRUE
    ELSE pat_re_search(s, p + 1)

is_pat_one(x) == pat_re_search(norm_text(x), 1)
is_category_one(x) == contains(str_lower(norm_text(x)), T_category)
is_auto_one(x) ==
    \E t \in DOMAIN auto_tokens : contains(str_lower(norm_text(x)), auto_tokens[t])

\* The classifier with precedence PAT, Category, Auto: one class per row.
classify_ptx_exclusive(series) ==
    [ pat |-> Mask("bool", [ k \in 1..Len(series) |-> is_pat_one(series[k]) ]),
      category |-> Mask("bool", [ k \in 1..Len(series) |->
                      ~is_pat_one(series[k]) /\ is_category_one(series[k]) ]),
      auto |-> Mask(IF Len(series) = 0 THEN "object" ELSE "bool",
                    [ k \in 1..Len(series) |->
                      /\ ~is_pat_one(series[k])
                      /\ ~is_category_one(series[k])
                      /\ is_auto_one(series[k]) ]) ]

\* classify_ptx: three masks over the AJ values.  str.contains gives boolean
\* Series; Series.apply gives a boolean Series unless the Series is empty.
classify_ptx(series) ==
    [ pat |-> Mask("bool", [ k \in 1..Len(series) |-> is_pat_one(series[k]) ]),
      category |-> Mask("bool", [ k \in 1..Len(series) |-> is_category_one(series[k]) ]),
      auto |-> Mask(IF Len(series) = 0 THEN "object" ELSE "bool",
                    [ k \in 1..Len(series) |-> is_auto_one(series[k]) ]) ]

\* ------------------------------------------------------ entity column
HeaderIsEntity(sh, c) == str_lower(str_strip(Header(sh, c))) = T_entity

\* The locator falling back to column A instead of column B.
get_entity_col_first(v, sh, df) ==
    LET hits == { k \in 1..shape1(df) : HeaderIsEntity(sh, df.columns[k]) }
    IN  IF hits # {}
            THEN Returned(df.columns[CHOOSE k \in hits : \A j \in hits : k <= j])
        ELSE IF shape1(df) > 0 THEN Returned(df.columns[1])
        ELSE Raised("KeyError", "get_entity_col", << >>)

\* get_entity_col / entity_col: first header equal to "entity", else column B.
get_entity_col(v, sh, df) ==
    LET hits == { k \in 1..shape1(df) : HeaderIsEntity(sh, df.columns[k]) }
    IN  IF hits # {}
            THEN Returned(df.columns[CHOOSE k \in hits : \A j \in hits : k <= j])
        ELSE IF v = "extract_ids"
            THEN IF shape1(df) > 1 THEN Returned(df.columns[2])
                 ELSE Raised("KeyError", "get_entity_col", << >>)
        ELSE IF shape1(df) > 1 THEN Returned(df.columns[2])
             ELSE Raised("IndexError", "entity_col", << >>)

\* ---------------------------------------------------- column selection
\* letters_to_indices: the first letter that cannot be resolved raises.
letters_to_indices(v, letters) ==
    LET res == [ k \in 1..Len(letters) |-> excel_col_to_idx(v, letters[k]) ]
        bad == { k \in 1..Len(letters) : res[k].kind = "raise" }
    IN  IF bad # {} THEN res[CHOOSE k \in bad : \A j \in bad : k <= j]
        ELSE Returned([ k \in 1..Len(letters) |-> res[k].val ])

SeqFilter(seq, keepAt) ==
    LET F[k \in 0..Len(seq)] ==
            IF k = 0 THEN << >>
            ELSE IF k \in keepAt THEN Append(F[k - 1], seq[k]) ELSE F[k - 1]
    IN  F[Len(seq)]

\* extract_ids.py pick_columns_by_letters: the whole request is checked
\* against the width, and the letters beyond it are named in the error.
pick_columns_by_letters(f, letters, idxs) ==
    LET over == { k \in 1..Len(idxs) : idxs[k] >= shape1(f) }
    IN  IF over # {}
            THEN Raised("IndexError", "pick_columns_by_letters", SeqFilter(letters, over))
        ELSE Returned(Frame([ k \in 1..Len(idxs) |-> f.columns[idxs[k] + 1] ], f.index))

\* proccess.py / streamlit_app.py pick: df.iloc[:, idxs] refuses a position
\* outside the frame with its own error, which names no letter.
iloc_columns(f, letters, idxs) ==
    LET over == { k \in 1..Len(idxs) : idxs[k] >= shape1(f) \/ idxs[k] < 0 - shape1(f) }
    IN  IF over # {} THEN Raised("IndexError", "iloc", << >>)
        ELSE Returned(Frame([ k \in 1..Len(idxs) |->
                                 IF idxs[k] >= 0 THEN f.columns[idxs[k] + 1]
                                 ELSE f.columns[shape1(f) + idxs[k] + 1] ], f.index))

pick(v, f, letters) ==
    LET r == letters_to_indices(v, letters)
    IN  IF r.kind = "raise" THEN r
        ELSE IF v = "extract_ids" THEN pick_columns_by_letters(f, letters, r.val)
        ELSE iloc_columns(f, letters, r.val)

\* ------------------------------------------------------------- state
VARIABLES
    variant,   \* which of the three programs runs
    sheet,     \* the input: the "Sponsored Products Campaigns" sheet of the file
    pc,        \* position of the invocation
    df,        \* the DataFrame read from the sheet
    entc,      \* the entity column located (0-based position), -1 before
    maps,      \* KW, PT, AD, PAT, CAT, AUT: the frames built so far
    out,       \* the sheets added to the output workbook, in order
    err,       \* the exception that ended the invocation
    stats,     \* the counts the invocation reports (table name -> rows)
    diag,      \* messages written to standard error
    rs         \* a call of the column-letter resolver: input and result

vars == << variant, sheet, pc, df, entc, maps, out, err, stats, diag, rs >>

NoErr == [ kind |-> "none", type |-> "", origin |-> "", info |-> << >> ]
NoTable == [ built |-> FALSE, columns |-> << >>, index |-> << >> ]
Built(f) == [ built |-> TRUE, columns |-> f.columns, index |-> f.index ]
NoStats == [ k \in {} |-> 0 ]
NoCall == [ inp |-> << >>, res |-> [ kind |-> "idle" ] ]
TableNames == { "KW", "PT", "AD", "PAT", "CAT", "AUT" }

\* Sheet names of the workbook, in the order they are written.
SheetOrder ==
    << [ name |-> "1-SP-KeywordTargetingMap", table |-> "KW" ],
       [ name |-> "2-SP-AdvertisedProductMap", table |-> "AD" ],
       [ name |-> "3-SP-PATMap", table |-> "PAT" ],
       [ name |-> "4-SP-CategoryMap", table |-> "CAT" ],
       [ name |-> "5-SP-AutoMap", table |-> "AUT" ] >>

\* ------------------------------------------------------------- inputs
H_Product == << "P","r","o","d","u","c","t" >>
H_Entity == << "E","n","t","i","t","y" >>
H_ENTITY_padded == << " ","E","N","T","I","T","Y"," " >>
H_Operation == << "O","p","e","r","a","t","i","o","n" >>
H_Type == << "T","y","p","e" >>

\* Rows of the sheet: the entity cell and the targeting-expression cell.
RowKinds ==
    { [ entity |-> << " ","K","E","Y","W","O","R","D"," " >>,
        aj |-> << "c","l","o","s","e" >> ],
      [ entity |-> << "P","r","o","d","u","c","t"," ","T","a","r","g","e","t","i","n","g" >>,
        aj |-> << "B","0","C","1","D","2","E","3","F","4" >> ],
      [ entity |-> << "P","r","o","d","u","c","t"," ","T","a","r","g","e","t","i","n","g" >>,
        aj |-> << "B","0","A","B","C","D","E","F","G","H"," ","c","a","t","e","g","o","r","y"," ","c","l","o","s","e" >> ],
      [ entity |-> << "p","r","o","d","u","c","t"," ","t","a","r","g","e","t","i","n","g"," ","-"," ","x" >>,
        aj |-> << "a","s","i","n","=","\"","b","0","c","1","d","2","e","3","f","4","\""," ","C","a","t","e","g","o","r","y" >> ],
      [ entity |-> << "P","r","o","d","u","c","t"," ","T","a","r","g","e","t","i","n","g" >>,
        aj |-> << "l","o","o","s","e","-","m","a","t","c","h"," ","X","B","0","C","1","D","2","E","3","F","4" >> ],
      [ entity |-> << "P","r","o","d","u","c","t"," ","T","a","r","g","e","t","i","n","g" >>,
        aj |-> NaN ],
      [ entity |-> << "P","r","o","d","u","c","t"," ","A","d" >>,
        aj |-> NaN ],
      [ entity |-> << "P","r","o","d","u","c","t"," ","A","d","s" >>,
        aj |-> << "B","0","C","1","D","2","E","3","F","4" >> ],
      [ entity |-> NaN,
        aj |-> << "c","a","t","e","g","o","r","y" >> ] }

RowSeqs == UNION { [ 1..n -> RowKinds ] : n \in 0..MaxRows }

\* Widths and header layouts of the sheet.  AJ is the 36th column, AC the
\* 29th, W the 23rd, T the 20th.
Shape(ncols, head, entAt) ==
    [ ncols |-> ncols, head |-> SubSeq(head, 1, IF ncols < Len(head) THEN ncols ELSE Len(head)),
      entAt |-> entAt ]
Shapes ==
    { Shape(36, << H_Product, H_Entity, H_Operation >>, 1),
      Shape(37, << H_Product, H_Type, H_Operation >>, 1),
      Shape(35, << H_Product, H_Entity, H_Operation >>, 1),
      Shape(29, << H_ENTITY_padded, H_Entity, H_Operation >>, 0),
      Shape(18, << H_Product, H_Entity, H_Operation >>, 1),
      Shape(2, << H_Product, H_Type >>, 1),
      Shape(1, << H_Entity >>, 0),
      Shape(1, << H_Product >>, 0) }

Sheets ==
    { [ readable |-> TRUE, ncols |-> s.ncols, head |-> s.head, entAt |-> s.entAt,
        ajAt |-> 35, rows |-> r ] : s \in Shapes, r \in RowSeqs }
    \cup { [ readable |-> FALSE, ncols |-> 0, head |-> << >>, entAt |-> 0,
             ajAt |-> 35, rows |-> << >> ] }

Idle ==
    /\ df = Frame(<< >>, << >>)
    /\ entc = -1
    /\ maps = [ n \in TableNames |-> NoTable ]
    /\ out = << >>
    /\ err = NoErr
    /\ stats = NoStats
    /\ diag = << >>

Init ==
    /\ variant \in Variants
    /\ sheet \in Sheets
    /\ pc = "start"
    /\ rs = NoCall
    /\ Idle

\* ------------------------------------------------------------ actions
Fail(e) ==
    /\ pc' = "failed"
    /\ err' = e

\* The entity masks of the frame (match_entity on df[entity_col]).
entity_mask(sh, d, c, needle) == match_entity(column_values(sh, d, c), needle)

\* pd.read_excel succeeds.
ReadSheet ==
    /\ pc = "start"
    /\ sheet.readable
    /\ df' = read_excel(sheet)
    /\ pc' = "read"
    /\ UNCHANGED << variant, sheet, entc, maps, out, err, stats, diag, rs >>

\* pd.read_excel raises (no such file, no such sheet): extract_ids.py prints
\* the error and exits 1, proccess.py lets it propagate, streamlit_app.py
\* returns it as the error text.
ReadFails ==
    /\ pc = "start"
    /\ ~sheet.readable
    /\ Fail(Raised("Exception", "read_excel", << >>))
    /\ diag' = IF variant = "extract_ids" THEN Append(diag, "ERROR: Failed to read") ELSE diag
    /\ UNCHANGED << variant, sheet, df, entc, maps, out, stats, rs >>

LocateEnds(r) ==
    IF r.kind = "raise"
        THEN Fail(r) /\ UNCHANGED entc
    ELSE entc' = r.val /\ pc' = "located" /\ UNCHANGED err

\* get_entity_col / entity_col, then the three entity masks.
LocateEntity ==
    /\ pc = "read"
    /\ LocateEnds(get_entity_col(variant, sheet, df))
    /\ UNCHANGED << variant, sheet, df, maps, out, stats, diag, rs >>

PickEnds(r, name, next) ==
    IF r.kind = "raise"
        THEN Fail(r) /\ UNCHANGED maps
    ELSE maps' = [ maps EXCEPT ![name] = Built(r.val) ] /\ pc' = next /\ UNCHANGED err

\* One base map: the rows of an entity mask, the columns of its letters.
PickBase(at, next, name, needle, letters) ==
    /\ pc = at
    /\ PickEnds(pick(variant, loc_rows(df, entity_mask(sheet, df, entc, needle)), letters),
                name, next)
    /\ UNCHANGED << variant, sheet, df, entc, out, stats, diag, rs >>

PickKeyword == PickBase("located", "kw", "KW", T_keyword, cols_keyword)
PickProductTargeting == PickBase("kw", "pt", "PT", T_product_targeting, cols_prod_targeting)
PickProductAd == PickBase("pt", "ad", "AD", T_product_ad, cols_product_ad)

\* df.iloc[0:0]: the columns, no row.
iloc_none(f) == Frame(f.columns, << >>)

\* The three picks of the classification, in the order they are made: the
\* first that raises ends the block.
three_maps(p1, p2, p3, n) ==
    IF p1.kind = "raise" THEN p1
    ELSE IF p2.kind = "raise" THEN p2
    ELSE IF p3.kind = "raise" THEN p3
    ELSE Returned([ PAT |-> p1.val, CAT |-> p2.val, AUT |-> p3.val,
                    warned |-> FALSE, pt_rows |-> n ])

\* pt_rows[mask] for each mask of classify_ptx, each picked by the letters.
masked_picks(v, pt_rows, masks) ==
    three_maps(pick(v, getitem(pt_rows, masks.pat), cols_prod_targeting),
               pick(v, getitem(pt_rows, masks.category), cols_prod_targeting),
               pick(v, getitem(pt_rows, masks.auto), cols_prod_targeting),
               Len(pt_rows.index))

\* The classified maps of the product-targeting rows: pt_rows.iloc[:, aj] is
\* handed to classify_ptx.
classified(v, sh, pt_rows, aj) ==
    IF aj >= shape1(pt_rows)
        THEN Raised("IndexError", "iloc", << >>)
    ELSE masked_picks(v, pt_rows,
                      classify_ptx(column_values(sh, pt_rows, pt_rows.columns[aj + 1])))

degraded(PT, warned) ==
    Returned([ PAT |-> iloc_none(PT), CAT |-> iloc_none(PT), AUT |-> iloc_none(PT),
               warned |-> warned, pt_rows |-> 0 ])

\* The classification block of each program, given the AJ index and pt_rows.
classify_with(v, sh, d, PT, aj, pt_rows) ==
    IF aj.kind = "raise" THEN aj
    ELSE IF v = "extract_ids"
        THEN IF aj.val >= shape1(d) THEN degraded(PT, TRUE)
             ELSE classified(v, sh, pt_rows, aj.val)
    ELSE IF v = "streamlit_app"
        THEN IF Len(pt_rows.index) > 0 /\ aj.val < shape1(d)
                 THEN classified(v, sh, pt_rows, aj.val)
             ELSE degraded(PT, FALSE)
    ELSE classified(v, sh, pt_rows, aj.val)

classify_block(v, sh, d, c, PT) ==
    classify_with(v, sh, d, PT, excel_col_to_idx(v, L_AJ),
                  loc_rows(d, entity_mask(sh, d, c, T_product_targeting)))

\* extract_ids.py prints the counts of the classification when it ran.
printed_counts(r) ==
    [ k \in { "ProductTargetingRows", "PATMap", "CategoryMap", "AutoMap" } |->
        IF k = "ProductTargetingRows" THEN r.pt_rows
        ELSE IF k = "PATMap" THEN Len(r.PAT.index)
        ELSE IF k = "CategoryMap" THEN Len(r.CAT.index)
        ELSE Len(r.AUT.index) ]

ClassifyEnds(r) ==
    IF r.kind = "raise"
        THEN Fail(r) /\ UNCHANGED << maps, stats, diag >>
    ELSE /\ maps' = [ maps EXCEPT !["PAT"] = Built(r.val.PAT),
                                  !["CAT"] = Built(r.val.CAT),
                                  !["AUT"] = Built(r.val.AUT) ]
         /\ diag' = IF r.val.warned
                        THEN Append(diag, "WARNING: AJ column by position not found")
                    ELSE diag
         /\ stats' = IF variant = "extract_ids" /\ ~r.val.warned
                         THEN printed_counts(r.val)
                     ELSE stats
         /\ pc' = "built"
         /\ UNCHANGED err

Classify ==
    /\ pc = "ad"
    /\ ClassifyEnds(classify_block(variant, sheet, df, entc, maps["PT"]))
    /\ UNCHANGED << variant, sheet, df, entc, out, rs >>

\* DataFrame.to_excel(index=False): the header labels, then the cells.
to_excel(sh, name, f) ==
    [ name |-> name,
      header |-> [ k \in 1..Len(f.columns) |-> Header(sh, f.columns[k]) ],
      data |-> [ i \in 1..Len(f.index) |->
                   [ k \in 1..Len(f.columns) |-> Cell(sh, f.index[i], f.columns[k]) ] ] ]

\* Writing each sheet as soon as its map exists, before the others are built.
WriteSheetEager ==
    /\ pc \in { "kw", "pt", "ad", "built" }
    /\ Len(out) < Len(SheetOrder)
    /\ maps[SheetOrder[Len(out) + 1].table].built
    /\ LET s == SheetOrder[Len(out) + 1]
       IN  out' = Append(out, to_excel(sheet, s.name, maps[s.table]))
    /\ UNCHANGED << variant, sheet, pc, df, entc, maps, err, stats, diag, rs >>

\* The next sheet of the workbook is written.
WriteSheet ==
    /\ pc = "built"
    /\ Len(out) < Len(SheetOrder)
    /\ LET s == SheetOrder[Len(out) + 1]
       IN  out' = Append(out, to_excel(sheet, s.name, maps[s.table]))
    /\ UNCHANGED << variant, sheet, pc, df, entc, maps, err, stats, diag, rs >>

\* The writer raises (the sink refuses the data): extract_ids.py prints the
\* error and exits 2, the others let it reach their caller.
WriteFails ==
    /\ pc = "built"
    /\ Len(out) < Len(SheetOrder)
    /\ Fail(Raised("Exception", "ExcelWriter", << >>))
    /\ diag' = IF variant = "extract_ids" THEN Append(diag, "ERROR: Failed to write") ELSE diag
    /\ UNCHANGED << variant, sheet, df, entc, maps, out, stats, rs >>

\* What the invocation hands back once the workbook is closed.
returned_stats(v, d, m, st) ==
    IF v = "extract_ids" THEN st
    ELSE LET five == [ k \in { "KeywordTargetingMap", "AdvertisedProductMap", "PATMap",
                               "CategoryMap", "AutoMap" } |->
                         IF k = "KeywordTargetingMap" THEN Len(m["KW"].index)
                         ELSE IF k = "AdvertisedProductMap" THEN Len(m["AD"].index)
                         ELSE IF k = "PATMap" THEN Len(m["PAT"].index)
                         ELSE IF k = "CategoryMap" THEN Len(m["CAT"].index)
                         ELSE Len(m["AUT"].index) ]
         IN  IF v = "proccess" THEN five
             ELSE [ k \in DOMAIN five \cup { "TotalRows" } |->
                      IF k = "TotalRows" THEN Len(d.index) ELSE five[k] ]

Finish ==
    /\ pc = "built"
    /\ Len(out) = Len(SheetOrder)
    /\ stats' = returned_stats(variant, df, maps, stats)
    /\ pc' = "done"
    /\ UNCHANGED << variant, sheet, df, entc, maps, out, err, diag, rs >>

Next ==
    \/ ReadSheet
    \/ ReadFails
    \/ LocateEntity
    \/ PickKeyword
    \/ PickProductTargeting
    \/ PickProductAd
    \/ Classify
    \/ WriteSheet
    \/ WriteFails
    \/ Finish

Spec == Init /\ [][Next]_vars

\* --------------------------------------------- the resolver on its own
\* A call of excel_col_to_idx on a letter string of the caller's choosing.
LetterAlphabet == { "A", "B", "Z", "a", "z", " ", "1" }
LetterInputs == UNION { [ 1..n -> LetterAlphabet ] : n \in 0..MaxLetters }

NoSheet ==
    [ readable |-> FALSE, ncols |-> 0, head |-> << >>, entAt |-> 0, ajAt |-> 35,
      rows |-> << >> ]

InitLetters ==
    /\ variant \in Variants
    /\ sheet = NoSheet
    /\ pc = "resolver"
    /\ \E s \in LetterInputs : rs = [ inp |-> s, res |-> [ kind |-> "pending" ] ]
    /\ Idle

ResolveLetter ==
    /\ pc = "resolver"
    /\ rs.res.kind = "pending"
    /\ rs' = [ rs EXCEPT !.res = excel_col_to_idx(variant, rs.inp) ]
    /\ UNCHANGED << variant, sheet, pc, df, entc, maps, out, err, stats, diag >>

NextLetters == ResolveLetter

SpecLetters == InitLetters /\ [][NextLetters]_vars

\* ------------------------------------------------------------ properties
Rows == 1..Len(sheet.rows)
Terminal == pc \in { "done", "failed" }
InMap(name, r) == maps[name].built /\ \E k \in DOMAIN maps[name].index : maps[name].index[k] = r
OutputTables == { "KW", "AD", "PAT", "CAT", "AUT" }
WriterFailed == pc = "failed" /\ err.origin = "ExcelWriter"

\* Zero-based position a column letter stands for (A = 0, ..., Z = 25, AA = 26).
LetterValue(ch) == PosIn(UpperLetters, UpperCh(ch))
RECURSIVE PositionOf(_)
PositionOf(letters) ==
    IF Len(letters) = 1 THEN LetterValue(letters[1]) - 1
    ELSE 26 * (PositionOf(SubSeq(letters, 1, Len(letters) - 1)) + 1)
         + LetterValue(letters[Len(letters)]) - 1

Present(letters) == PositionOf(letters) < sheet.ncols
AllPresent(req) == \A k \in DOMAIN req : Present(req[k])
LettersOf(table) ==
    IF table = "KW" THEN cols_keyword
    ELSE IF table = "AD" THEN cols_product_ad
    ELSE cols_prod_targeting
LabelsOf(req) == [ k \in DOMAIN req |-> Header(sheet, PositionOf(req[k])) ]

\* C1: when column AJ is absent (35 or fewer columns) and every other required
\* column is present, the run completes and emits all five tables, PATMap,
\* CategoryMap and AutoMap with zero rows, and a diagnostic is recorded.
C1_AbsentAJDegrades ==
    ( /\ Terminal
      /\ sheet.readable
      /\ ~Present(L_AJ)
      /\ AllPresent(cols_keyword)
      /\ AllPresent(cols_product_ad)
      /\ AllPresent(SubSeq(cols_prod_targeting, 1, 8))
      /\ ~WriterFailed )
    => /\ pc = "done"
       /\ Len(out) = 5
       /\ \A i \in 3..5 : out[i].data = << >>
       /\ diag # << >>

\* ---- C2
AJ_all_three == << "B","0","A","B","C","D","E","F","G","H"," ","c","a","t","e","g","o","r","y"," ","c","l","o","s","e" >>
AJ_asin_only == << "B","0","C","1","D","2","E","3","F","4" >>

C2_IsProductTargeting(x) ==
    startswith(str_lower(str_strip(astype_str(x))), T_product_targeting)
C2_HasAsinToken(x) ==
    LET s == astype_str(x)
    IN  \E p \in 1..(Len(s) - 9) :
            /\ s[p] \in { "B", "b" }
            /\ s[p + 1] = "0"
            /\ \A k \in 2..9 : IsAlnumCh(s[p + k])
            /\ (p = 1 \/ ~IsWordCh(s[p - 1]))
            /\ (p + 9 = Len(s) \/ ~IsWordCh(s[p + 10]))
C2_HasCategory(x) == contains(str_lower(astype_str(x)), T_category)
C2_HasAutoToken(x) ==
    \E k \in DOMAIN auto_tokens : contains(str_lower(astype_str(x)), auto_tokens[k])
EntityText(r) == Cell(sheet, r, entc)
AJText(r) == Cell(sheet, r, PositionOf(L_AJ))

C2_RowClassified(r, pt, aj) ==
    /\ InMap("PAT", r) <=> (pt /\ C2_HasAsinToken(aj))
    /\ InMap("CAT", r) <=> (pt /\ C2_HasCategory(aj))
    /\ InMap("AUT", r) <=> (pt /\ C2_HasAutoToken(aj))
    /\ (pt /\ aj = AJ_all_three) => (InMap("PAT", r) /\ InMap("CAT", r) /\ InMap("AUT", r))
    /\ (pt /\ aj = AJ_asin_only) => (InMap("PAT", r) /\ ~InMap("CAT", r) /\ ~InMap("AUT", r))

\* C2: once the maps are built, a row is in PATMap iff it is tagged product
\* targeting and its AJ text holds a word-delimited B0 + 8 alphanumerics token
\* (any case), in CategoryMap iff tagged product targeting and the lower-cased
\* AJ text contains "category", in AutoMap iff tagged product targeting and
\* the lower-cased AJ text contains close, loose, substitute or complement;
\* the three are independent: "B0ABCDEFGH category close" is in all three,
\* "B0C1D2E3F4" in PATMap only.
C2_IndependentMemberships ==
    ((pc = "built" /\ out = << >>) \/ pc = "done") =>
        \A r \in Rows :
            C2_RowClassified(r, C2_IsProductTargeting(EntityText(r)), AJText(r))

C2_Witness ==
    /\ pc = "done"
    /\ \E r \in Rows :
           AJText(r) = AJ_all_three /\ InMap("PAT", r) /\ InMap("CAT", r) /\ InMap("AUT", r)
    /\ \E r \in Rows :
           AJText(r) = AJ_asin_only /\ InMap("PAT", r) /\ ~InMap("CAT", r) /\ ~InMap("AUT", r)

\* ---- C3
C3_Tag(x) ==
    LET s == str_lower(str_strip(astype_str(x)))
    IN  IF startswith(s, T_keyword) THEN "Keyword"
        ELSE IF startswith(s, T_product_targeting) THEN "ProductTargeting"
        ELSE IF startswith(s, T_product_ad) THEN "ProductAd"
        ELSE "None"
C3_Needles == { T_keyword, T_product_targeting, T_product_ad }
C3_Matched(r) ==
    { n \in C3_Needles : match_entity(<< EntityText(r) >>, n).vals[1] }
C3_RowTagged(r, matched, tag) ==
    /\ Cardinality(matched) <= 1
    /\ (T_keyword \in matched) <=> (tag = "Keyword")
    /\ (T_product_targeting \in matched) <=> (tag = "ProductTargeting")
    /\ (T_product_ad \in matched) <=> (tag = "ProductAd")
    /\ (matched = {}) <=> (tag = "None")
    /\ maps["KW"].built => (InMap("KW", r) <=> tag = "Keyword")
    /\ maps["PT"].built => (InMap("PT", r) <=> tag = "ProductTargeting")
    /\ maps["AD"].built => (InMap("AD", r) <=> tag = "ProductAd")

\* C3: once the entity column is located, every row has exactly one tag of
\* Keyword, ProductTargeting, ProductAd, None: at most one of the three
\* matchers is true of its trimmed, lower-cased entity value, a row no
\* matcher accepts (a missing value too) is None, and a base map holds
\* exactly the rows of its tag.
C3_ExactlyOneTag ==
    pc \in { "located", "kw", "pt", "ad" } =>
        \A r \in Rows : C3_RowTagged(r, C3_Matched(r), C3_Tag(EntityText(r)))

C3_Witness ==
    /\ pc = "ad"
    /\ \E r \in Rows : EntityText(r) = NaN /\ C3_Matched(r) = {}
    /\ \E r \in Rows : InMap("AD", r) /\ ~InMap("PT", r) /\ ~InMap("KW", r)

\* C4: every invocation that is given a readable sheet with all the required
\* columns ends with exactly five tables, in the order Keyword,
\* AdvertisedProduct, PAT, Category, Auto, each with the header labels of its
\* columns, also when a table has no row (no input row, or no row tagged
\* product targeting): no error.
C4_FiveTablesInOrder ==
    ( /\ Terminal
      /\ sheet.readable
      /\ AllPresent(cols_keyword)
      /\ AllPresent(cols_product_ad)
      /\ AllPresent(cols_prod_targeting)
      /\ ~WriterFailed )
    => /\ pc = "done"
       /\ Len(out) = 5
       /\ \A i \in 1..5 :
              /\ out[i].name = SheetOrder[i].name
              /\ out[i].header = LabelsOf(LettersOf(SheetOrder[i].table))

\* ---- C5
C5_FailedRequest ==
    IF ~maps["KW"].built THEN cols_keyword
    ELSE IF ~maps["PT"].built THEN cols_prod_targeting
    ELSE IF ~maps["AD"].built THEN cols_product_ad
    ELSE cols_prod_targeting
C5_Offending(req) == SeqFilter(req, { k \in DOMAIN req : ~Present(req[k]) })

\* C5: a column selection that asks for a letter at or beyond the table's
\* width fails, before any table is returned, with an error that lists every
\* offending letter of the request.
C5_ListsEveryOffendingLetter ==
    \A n \in { "KW", "PT", "AD" } :
        (~AllPresent(LettersOf(n)) /\ entc >= 0 /\ Terminal /\ C5_FailedRequest = LettersOf(n))
        => /\ pc = "failed"
           /\ ~maps[n].built
           /\ err.type = "IndexError"
           /\ err.info = C5_Offending(LettersOf(n))

\* ---- C6
C6_EntityHeaders ==
    { c \in 0..(sheet.ncols - 1) : str_lower(str_strip(Header(sheet, c))) = T_entity }
C6_LocatorFailed ==
    pc = "failed" /\ err.origin \in { "get_entity_col", "entity_col" } /\ entc = -1
C6_Located(hits) ==
    IF hits # {} THEN entc \in hits /\ \A c \in hits : entc <= c
    ELSE IF sheet.ncols >= 2 THEN entc = 1
    ELSE C6_LocatorFailed

\* C6: the entity column is the first column whose trimmed, lower-cased header
\* is "entity"; with no such header it is the second column (index 1) when the
\* table has two columns or more, and the locator fails otherwise.
C6_EntityColumnLocated ==
    (pc = "located" \/ (pc = "failed" /\ entc = -1 /\ sheet.readable)) =>
        C6_Located(C6_EntityHeaders)

C6_Witness ==
    /\ sheet.readable
    /\ C6_EntityHeaders = {}
    /\ sheet.ncols < 2
    /\ C6_LocatorFailed

\* ---- C7
C7_Trimmed == str_strip(rs.inp)
C7_AllLetters(s) == \A i \in DOMAIN s : s[i] \in UpperSet \cup LowerSet
C7_Valid(s) == str_strip(s) # << >> /\ C7_AllLetters(str_strip(s))

\* The letter string of a zero-based index, in bijective base 26.
RECURSIVE C7_Numeral(_)
C7_Numeral(n) ==
    IF n < 26 THEN << UpperLetters[n + 1] >>
    ELSE C7_Numeral((n \div 26) - 1) \o << UpperLetters[(n % 26) + 1] >>

\* C7: for a non-empty string of Latin letters (trimmed, any case) the resolver
\* returns its zero-based bijective base-26 index: A 0, Z 25, AA 26, AZ 51,
\* BA 52; strings that differ (up to case) get different indices, and every
\* index is the image of a letter string.
C7_BijectiveBase26 ==
    (rs.res.kind \notin { "idle", "pending" } /\ C7_Valid(rs.inp)) =>
        /\ rs.res.kind = "ok"
        /\ rs.res.val >= 0
        /\ rs.res.val = PositionOf(C7_Trimmed)
        /\ C7_Numeral(rs.res.val) = str_upper(C7_Trimmed)
        /\ (str_upper(C7_Trimmed) = << "A" >>) => rs.res.val = 0
        /\ (str_upper(C7_Trimmed) = << "Z" >>) => rs.res.val = 25
        /\ (str_upper(C7_Trimmed) = << "A", "A" >>) => rs.res.val = 26
        /\ (str_upper(C7_Trimmed) = << "A", "Z" >>) => rs.res.val = 51
        /\ (str_upper(C7_Trimmed) = << "B", "A" >>) => rs.res.val = 52
        /\ \A t \in LetterInputs :
               (C7_Valid(t) /\ excel_col_to_idx(variant, t) = rs.res)
                   => str_upper(str_strip(t)) = str_upper(C7_Trimmed)
        /\ \A n \in 0..MaxIndex :
               excel_col_to_idx(variant, C7_Numeral(n)) = Returned(n)

C7_Witness ==
    /\ rs.inp = << "a", "Z" >>
    /\ rs.res = Returned(51)

\* C8: a fatal error (a letter that cannot be resolved, a column out of range,
\* no entity column, a source that cannot be read) ends the invocation with no
\* sheet written; a sheet is written only once all five tables are built, and
\* an invocation that succeeds has written all five.
C8_NoPartialOutput ==
    /\ out # << >> => \A n \in OutputTables : maps[n].built
    /\ (pc = "failed" /\ ~WriterFailed) => out = << >>
    /\ pc = "done" => (Len(out) = 5 /\ err = NoErr)

C8_Witness ==
    /\ pc = "failed"
    /\ err.origin \in { "pick_columns_by_letters", "iloc" }
    /\ maps["KW"].built
    /\ out = << >>

\* ---- C9
C9_Keys ==
    << "KeywordTargetingMap", "AdvertisedProductMap", "PATMap", "CategoryMap", "AutoMap" >>

\* C9: a successful invocation reports the row count of each of the five
\* tables and the number of input rows, each count that of the table written.
C9_ReportsSixCounts ==
    pc = "done" =>
        /\ \A i \in 1..5 : C9_Keys[i] \in DOMAIN stats
        /\ "TotalRows" \in DOMAIN stats
        /\ \A i \in 1..5 : stats[C9_Keys[i]] = Len(out[i].data)
        /\ stats["TotalRows"] = Len(sheet.rows)

\* C10: the resolver fails, returning no index, whenever the trimmed input
\* holds a character that is no upper- or lower-case Latin letter.
C10_MalformedNeverResolves ==
    (rs.res.kind \notin { "idle", "pending" } /\ ~C7_AllLetters(C7_Trimmed)) =>
        /\ rs.res.kind = "raise"
        /\ rs.res.type = "ValueError"

\* ---- C11
C11_ProductAd == << "P","r","o","d","u","c","t"," ","A","d" >>

\* Whether row r belongs to an output table, by its tag and its AJ text.
C11_Selected(table, r) ==
    IF table = "KW" THEN C3_Tag(EntityText(r)) = "Keyword"
    ELSE IF table = "AD" THEN C3_Tag(EntityText(r)) = "ProductAd"
    ELSE /\ C3_Tag(EntityText(r)) = "ProductTargeting"
         /\ IF table = "PAT" THEN C2_HasAsinToken(AJText(r))
            ELSE IF table = "CAT" THEN C2_HasCategory(AJText(r))
            ELSE C2_HasAutoToken(AJText(r))

\* The selected rows of a table in input order.
C11_RowsOf(table) ==
    LET F[k \in 0..Len(sheet.rows)] ==
            IF k = 0 THEN << >>
            ELSE IF C11_Selected(table, k) THEN Append(F[k - 1], k) ELSE F[k - 1]
    IN  F[Len(sheet.rows)]

C11_SheetIs(written, req, rows) ==
    /\ written.header = LabelsOf(req)
    /\ Len(written.data) = Len(rows)
    /\ \A i \in DOMAIN rows :
           written.data[i] = [ k \in DOMAIN req |-> Cell(sheet, rows[i], PositionOf(req[k])) ]

\* C11: each table written holds, for every selected row and in input order,
\* exactly the cells of its category's letters in the listed order (Keyword
\* D,E,H,L,M,R,S,T,AC; AdvertisedProduct D,E,G,L,M,R,S,T,W; PAT, Category and
\* Auto D,E,I,L,M,R,S,T,AJ) under the input's header labels of those columns.
C11_TablesHoldSelectedCells ==
    pc = "done" =>
        \A i \in 1..5 :
            C11_SheetIs(out[i], LettersOf(SheetOrder[i].table),
                        C11_RowsOf(SheetOrder[i].table))

C11_Witness ==
    /\ pc = "done"
    /\ Len(sheet.rows) = 2
    /\ EntityText(1) = C11_ProductAd
    /\ Len(out[2].data) = 2
    /\ out[2].data[1] = [ k \in DOMAIN cols_product_ad |->
                            Cell(sheet, 1, PositionOf(cols_product_ad[k])) ]
    /\ out[2].data[1] # out[2].data[2]

====
